---- MODULE Spec2Model ----
(***************************************************************************)
(* Model of the protocol translation engine of azure-oai-proxy: the        *)
(* response dispatcher (modifyResponse), the SSE stream converters running *)
(* behind an in-memory pipe, the non-streaming response converters and the *)
(* conversational request converters.                                      *)
(*                                                                         *)
(* The repository holds several generations of the same components; the    *)
(* variable `build` says which generation of the conversational converter  *)
(* is linked in:                                                           *)
(*   "azure"  - pkg/azure/streaming.go + pkg/azure/proxy.go                *)
(*   "legacy" - the pkg/azure Anthropic file with handleDelta/handleStop   *)
(*   "pkg"    - pkg/anthropic/converter.go (StreamConverter)               *)
(***************************************************************************)
EXTENDS Integers, Sequences, FiniteSets, TLC

VARIABLES
    build,      \* generation of the conversational converter in use
    res,        \* head of the upstream response: status, content type, ...
    body,       \* JSON body of a non-streaming upstream response
    upstream,   \* SSE blocks the upstream has sent so far
    rest,       \* lines of the current block the scanner has not read yet
    eventType,  \* Convert's local eventType
    messageID,  \* Convert's messageID
    pending,    \* frames the converter is writing to the pipe
    retAfter,   \* Convert returns once the pending frames are written
    clientGot,  \* frames the client has read from the pipe
    prClosed,   \* the client closed the read end of the pipe
    pwClosed,   \* the task closed the write end of the pipe
    bodyClosed, \* the task closed the upstream body
    clientEOF,  \* the client has read end-of-stream from the pipe
    writeFailed,\* a Write on the pipe returned an error
    result,     \* Convert's return value: "running", "nil" or "error"
    clientBody, \* body delivered to the client by a non-streaming path
    pc,         \* "modify", "scan", "write", "done"
    req,        \* chat-completions request received from the client
    upReq,      \* request body the conversational converter produced
    rpc,        \* "received", "forwarded", "rejected"; "responding" afterwards
    mapper,     \* AzureOpenAIModelMapper
    serverless, \* keys of ServerlessDeploymentInfo
    inbound,    \* head of the request the director is given
    outbound,   \* the request as the director leaves it
    dpc,        \* "init", "ready", "sent"; "idle" outside the director
    session,    \* the Session of a realtime connection
    relay,      \* HandleRealtime and the two goroutines of relayMessages
    forwarded   \* the messages written to the other side, in order

vars == << session, relay, forwarded, mapper, serverless, inbound, outbound, dpc, req, upReq, rpc, build, res, body, upstream, rest, eventType, messageID, pending,
           retAfter, clientGot, prClosed, pwClosed, bodyClosed, clientEOF,
           writeFailed, result, clientBody, pc >>

reqVars == << req, upReq, rpc >>

dirVars == << mapper, serverless, inbound, outbound, dpc >>

rtVars == << session, relay, forwarded >>

streamVars == << upstream, rest, eventType, messageID, pending, retAfter,
                 clientGot, prClosed, pwClosed, bodyClosed, clientEOF,
                 writeFailed, result >>

-----------------------------------------------------------------------------
(* Bounds *)

MaxEvents == 3      \* SSE blocks an upstream stream sends at most
MaxBlocks == 2      \* content blocks of a non-streaming conversational response
MaxItems == 2       \* output items of a non-streaming structured response
MaxFairEvents == 2  \* SSE blocks of a stream under the fair specification
MaxMsgs == 3        \* messages of a client request
MaxSuffixes == 2    \* suffixes after the stem of a model name
MaxRelayed == 2     \* messages a realtime session reads from its two sides

-----------------------------------------------------------------------------
(* JSON payloads of SSE data lines.  A payload is the trimmed text after   *)
(* "data:"; it is modelled by what the converters read from it.            *)

Absent == "<absent>"

Payload(raw, id, text, rdelta, stop) ==
    [raw |-> raw, id |-> id, text |-> text, rdelta |-> rdelta, stop |-> stop]

\* {"type":"message_start","message":{"id":"msg_1"}}
PStart == Payload("json", "msg_1", Absent, Absent, Absent)
\* {"type":"content_block_delta","delta":{"type":"text_delta","text":T}}
PText(t) == Payload("json", Absent, t, Absent, Absent)
\* {"type":"response.output_text.delta","delta":T}
PRDelta(t) == Payload("json", Absent, Absent, t, Absent)
\* {"type":"message_delta","delta":{"stop_reason":R}}
PStop(r) == Payload("json", Absent, Absent, Absent, r)
\* {"type":"message_stop"} and other JSON objects without the fields above
PObj == Payload("json", Absent, Absent, Absent, Absent)
\* the literal {"type": "ping"}
PPing == Payload("ping", Absent, Absent, Absent, Absent)
\* an empty data line
PEmpty == Payload("empty", Absent, Absent, Absent, Absent)
\* text that json.Unmarshal rejects
PBad == Payload("bad", Absent, Absent, Absent, Absent)

\* json.Unmarshal succeeds
JsonOK(p) == p.raw \in {"json", "ping"}

(* Lines of the upstream body *)
EventLine(name) == [k |-> "event", name |-> name, p |-> PEmpty]
DataLine(p) == [k |-> "data", name |-> "", p |-> p]
BlankLine == [k |-> "blank", name |-> "", p |-> PEmpty]
\* a line that is neither blank nor an event: nor a data: line, such as
\* the text of a JSON error body
RawLine == [k |-> "raw", name |-> "", p |-> PEmpty]

\* event: + data: + blank separator
Event(name, p) == << EventLine(name), DataLine(p), BlankLine >>

(* Frames written to the client *)
Chunk(id, model, delta, content, finish) ==
    [t |-> "chunk", id |-> id, model |-> model, delta |-> delta,
     content |-> content, finish |-> finish]
DoneFrame ==
    [t |-> "done", id |-> "", model |-> "", delta |-> "", content |-> "",
     finish |-> ""]

\* fmt.Sprintf("chatcmpl-%d", time.Now().UnixNano())
TimeID == "chatcmpl-<nanos>"

\* result of dispatching one line: new eventType, new messageID, frames
\* written, and whether Convert returns after it
Step(et, id, frames, ret) == [et |-> et, id |-> id, frames |-> frames, ret |-> ret]

-----------------------------------------------------------------------------
(* pkg/azure/streaming.go: AnthropicStreamingConverter *)

\* the stop-reason switch of handleMessageDelta
Azure_finishReason(stopReason) ==
    IF stopReason = "max_tokens" THEN "length" ELSE "stop"

Azure_handleMessageStart(p, id, model) ==
    IF ~JsonOK(p) THEN Step("message_start", id, << >>, FALSE)
    ELSE LET nid == IF p.id # Absent THEN p.id ELSE id
         IN  Step("message_start", nid,
                  << Chunk(nid, model, "role", "", "null") >>, FALSE)

Azure_handleContentDelta(p, id, model) ==
    LET textDelta == IF JsonOK(p) /\ p.text # Absent THEN p.text ELSE ""
    IN  IF ~JsonOK(p) \/ textDelta = "" THEN << >>
        ELSE << Chunk(id, model, "content", textDelta, "null") >>

Azure_handleMessageDelta(p, id, model) ==
    IF ~JsonOK(p) THEN << >>
    ELSE LET stopReason == IF p.stop # Absent THEN p.stop ELSE ""
         IN  << Chunk(id, model, "empty", "", Azure_finishReason(stopReason)) >>

Azure_handleMessageStop == << DoneFrame >>

\* one iteration of the scan loop of AnthropicStreamingConverter.Convert
Azure_ConvertLine(line, et, id, model) ==
    CASE line.k = "event" -> Step(line.name, id, << >>, FALSE)
      [] line.k = "data" ->
           IF line.p.raw \in {"empty", "ping"} THEN Step(et, id, << >>, FALSE)
           ELSE CASE et = "message_start" ->
                       Azure_handleMessageStart(line.p, id, model)
                  [] et = "content_block_delta" ->
                       Step(et, id, Azure_handleContentDelta(line.p, id, model), FALSE)
                  [] et = "message_delta" ->
                       Step(et, id, Azure_handleMessageDelta(line.p, id, model), FALSE)
                  [] et = "message_stop" ->
                       Step(et, id, Azure_handleMessageStop, TRUE)
                  [] OTHER -> Step(et, id, << >>, FALSE)
      [] line.k = "blank" -> Step("", id, << >>, FALSE)
      [] OTHER -> Step(et, id, << >>, FALSE)

(* pkg/azure/streaming.go: StreamingResponseConverter *)

handleTextDelta(p, model) ==
    IF ~JsonOK(p) \/ p.rdelta = Absent THEN << >>
    ELSE << Chunk(TimeID, model, "content", p.rdelta, "null") >>

handleCompleted(model) ==
    << Chunk(TimeID, model, "empty", "", "stop"), DoneFrame >>

\* one iteration of the scan loop of StreamingResponseConverter.Convert
Responses_ConvertLine(line, et, id, model) ==
    CASE line.k = "event" -> Step(line.name, id, << >>, FALSE)
      [] line.k = "data" ->
           CASE et = "response.output_text.delta" ->
                  Step(et, id, handleTextDelta(line.p, model), FALSE)
             [] et = "response.completed" ->
                  Step(et, id, handleCompleted(model), TRUE)
             [] OTHER -> Step(et, id, << >>, FALSE)
      [] line.k = "blank" -> Step("", id, << >>, FALSE)
      [] OTHER -> Step(et, id, << >>, FALSE)

(* legacy pkg/azure Anthropic file: AnthropicStreamingConverter with       *)
(* handleDelta and handleStop                                              *)

handleDelta(p, model) ==
    LET text == IF JsonOK(p) /\ p.text # Absent THEN p.text ELSE ""
    IN  IF ~JsonOK(p) \/ text = "" THEN << >>
        ELSE << Chunk(TimeID, model, "content", text, "null") >>

handleStop(model) ==
    << Chunk(TimeID, model, "empty", "", "stop"), DoneFrame >>

\* one iteration of the scan loop; the loop has no return and no reset of
\* eventType on a blank line
Legacy_ConvertLine(line, et, id, model) ==
    CASE line.k = "event" -> Step(line.name, id, << >>, FALSE)
      [] line.k = "data" ->
           CASE et = "content_block_delta" ->
                  Step(et, id, handleDelta(line.p, model), FALSE)
             [] et = "message_stop" ->
                  Step(et, id, handleStop(model), FALSE)
             [] OTHER -> Step(et, id, << >>, FALSE)
      [] OTHER -> Step(et, id, << >>, FALSE)

(* pkg/anthropic/converter.go: StreamConverter *)

Pkg_handleMessageStart(p, id, model) ==
    IF ~JsonOK(p) THEN Step("message_start", id, << >>, FALSE)
    ELSE LET nid == IF p.id # Absent THEN p.id ELSE ""
         IN  Step("message_start", nid,
                  << Chunk(nid, model, "role", "", "null") >>, FALSE)

Pkg_handleContentDelta(p, id, model) ==
    IF ~JsonOK(p) THEN << >>
    ELSE << Chunk(id, model, "content",
                  IF p.text # Absent THEN p.text ELSE "", "null") >>

Pkg_handleMessageStop(id, model) ==
    << Chunk(id, model, "empty", "", "stop"), DoneFrame >>

\* one iteration of the scan loop of StreamConverter.Convert
Pkg_ConvertLine(line, et, id, model) ==
    CASE line.k = "blank" -> Step("", id, << >>, FALSE)
      [] line.k = "event" -> Step(line.name, id, << >>, FALSE)
      [] line.k = "data" ->
           IF line.p.raw \in {"empty", "ping"} THEN Step(et, id, << >>, FALSE)
           ELSE CASE et = "message_start" ->
                       Pkg_handleMessageStart(line.p, id, model)
                  [] et = "content_block_delta" ->
                       Step(et, id, Pkg_handleContentDelta(line.p, id, model), FALSE)
                  [] et = "message_stop" ->
                       Step(et, id, Pkg_handleMessageStop(id, model), TRUE)
                  [] OTHER -> Step(et, id, << >>, FALSE)
      [] OTHER -> Step(et, id, << >>, FALSE)

-----------------------------------------------------------------------------
(* Upstream responses *)

\* the model string the client sent (dated), and what the upstream reports
ClientModel == "claude-sonnet-4-5-20250929"
UpstreamModel == "claude-sonnet-4-5"

\* res.upath: "anthropic" (/anthropic/v1/messages), "responses"
\* (/openai/v1/responses), "deployments" (/openai/deployments/...).
\* res.origPath: the request carries X-Original-Path: /v1/chat/completions.
\* The director sets X-Original-Path and X-Model together when it converts
\* a request; a client may send X-Original-Path itself on any request.
ResponseHeads ==
    { [status |-> st, ctype |-> ct, upath |-> h[1], origPath |-> h[2], xModel |-> h[3]] :
        st \in {200, 400}, ct \in {"sse", "json"},
        h \in { << "anthropic", TRUE, ClientModel >>,
                << "responses", TRUE, ClientModel >>,
                << "responses", FALSE, "" >>,
                << "deployments", FALSE, "" >>,
                << "deployments", TRUE, "" >> } }

\* the blocks an upstream stream is made of
AnthropicBlocks ==
    { Event("message_start", PStart),
      Event("content_block_delta", PText("Hi")),
      Event("content_block_delta", PText(" there")),
      Event("content_block_delta", PText("")),
      Event("content_block_delta", PBad),
      Event("message_delta", PStop("max_tokens")),
      Event("message_delta", PStop("end_turn")),
      Event("message_stop", PObj),
      Event("message_stop", PBad),
      Event("message_stop", PPing),
      Event("ping", PPing),
      << DataLine(PText("Hi")) >> }

ResponsesBlocks ==
    { Event("response.created", PObj),
      Event("response.output_text.delta", PRDelta("Hi")),
      Event("response.output_text.delta", PRDelta(" there")),
      Event("response.output_text.delta", PRDelta("")),
      Event("response.completed", PObj),
      << DataLine(PRDelta("Hi")) >> }

\* chat-completions chunks of the standard upstream: data lines, no event lines
ChatBlocks == { << DataLine(PObj), BlankLine >> }

\* the body of an error response
ErrorBlocks == { << RawLine >>, Event("error", PObj) }

BlocksFor(r) ==
    IF r.status # 200 THEN ErrorBlocks
    ELSE CASE r.upath = "anthropic" -> AnthropicBlocks
           [] r.upath = "responses" -> ResponsesBlocks
           [] OTHER -> ChatBlocks

-----------------------------------------------------------------------------
(* Non-streaming response bodies.  A string is a sequence of tokens, so    *)
(* that concatenation and joining are computed.                            *)

SeqsUpTo(S, n) == UNION { [1..k -> S] : k \in 0..n }

RECURSIVE Concat(_)
Concat(parts) ==
    IF parts = << >> THEN << >> ELSE Head(parts) \o Concat(Tail(parts))

\* strings.Join(parts, sep)
RECURSIVE Join(_, _)
Join(parts, sep) ==
    IF parts = << >> THEN << >>
    ELSE IF Len(parts) = 1 THEN Head(parts)
    ELSE Head(parts) \o sep \o Join(Tail(parts), sep)

NL == << "\n" >>

\* a missing string field, where strings are token sequences
AbsentText == << Absent >>

\* content blocks of a conversational response
TextBlock(t) == [type |-> "text", text |-> t]
ToolUseBlock == [type |-> "tool_use", text |-> AbsentText]
ContentBlocks == { TextBlock(<< "A" >>), TextBlock(<< "B" >>), ToolUseBlock }

\* output items of a structured response: parts are the texts of the
\* output_text parts of a message item
OutputItem(type, role, parts) == [type |-> type, role |-> role, parts |-> parts]
OutputItems ==
    { OutputItem("message", "assistant", << << "X" >> >>),
      OutputItem("message", "assistant", << << "Y" >>, << "Z" >> >>),
      OutputItem("reasoning", Absent, << >>) }

Body(valid, error, model, content, stop, outputText, output, rstatus) ==
    [kind |-> "upstream", valid |-> valid, error |-> error, model |-> model,
     content |-> content, stop |-> stop, outputText |-> outputText,
     output |-> output, rstatus |-> rstatus]

\* the body of a streamed response is not held in `body`
NoBody == Body(FALSE, FALSE, Absent, << >>, Absent, AbsentText, << >>, Absent)
\* a body that is not JSON
BadBody == Body(FALSE, FALSE, Absent, << >>, Absent, AbsentText, << >>, "bad")

AnthropicBodies ==
    { Body(TRUE, e, m, c, s, AbsentText, << >>, Absent) :
        e \in BOOLEAN, m \in {ClientModel, UpstreamModel},
        c \in SeqsUpTo(ContentBlocks, MaxBlocks),
        s \in {"end_turn", "max_tokens", "refusal", Absent} }

ResponsesBodies ==
    { Body(TRUE, e, m, << >>, Absent, t, o, st) :
        e \in BOOLEAN, m \in {ClientModel, UpstreamModel},
        t \in {AbsentText, << "T" >>},
        o \in SeqsUpTo(OutputItems, MaxItems),
        st \in {"completed", "incomplete"} }

ChatBodies ==
    { Body(TRUE, e, UpstreamModel, << >>, Absent, AbsentText, << >>, Absent) :
        e \in BOOLEAN }

BodiesFor(r) ==
    {BadBody} \cup
    CASE r.upath = "anthropic" -> AnthropicBodies
      [] r.upath = "responses" -> ResponsesBodies
      [] OTHER -> ChatBodies

ChatCompletion(model, content, finish) ==
    [kind |-> "chat.completion", model |-> model, content |-> content,
     finish |-> finish]

\* an SSE body handed to the client as it is
StreamThrough == [kind |-> "upstream-stream"]
\* nothing delivered by a non-streaming path (yet)
Nothing == [kind |-> "none"]

-----------------------------------------------------------------------------
(* pkg/azure/proxy.go: non-streaming converters *)

RECURSIVE ResponsesOutputText(_, _)
\* the walk over the output list of convertResponsesToChatCompletion: the
\* break leaves the loop over the parts only
ResponsesOutputText(outputs, content) ==
    IF outputs = << >> THEN content
    ELSE LET o == Head(outputs)
             c == IF o.type = "message" /\ o.role = "assistant" /\ o.parts # << >>
                  THEN Head(o.parts) ELSE content
         IN  ResponsesOutputText(Tail(outputs), c)

convertResponsesToChatCompletion(b) ==
    IF ~b.valid \/ b.error THEN b
    ELSE LET content == IF b.outputText # AbsentText THEN b.outputText
                        ELSE ResponsesOutputText(b.output, << >>)
             finishReason == IF b.rstatus # Absent /\ b.rstatus # "completed"
                             THEN b.rstatus ELSE "stop"
         IN  ChatCompletion(b.model, content, finishReason)

convertAnthropicToChatCompletion(b, xModel) ==
    IF ~b.valid \/ b.error THEN b
    ELSE LET model == IF xModel = "" THEN "claude-unknown" ELSE xModel
             content == IF b.content # << >> /\ b.content[1].text # AbsentText
                        THEN b.content[1].text ELSE << >>
             finishReason == IF b.stop = "max_tokens" THEN "length" ELSE "stop"
         IN  ChatCompletion(model, content, finishReason)

(* legacy pkg/azure Anthropic file *)

RECURSIVE TextParts(_)
\* the parts collected by extractAnthropicText
TextParts(blocks) ==
    IF blocks = << >> THEN << >>
    ELSE LET b == Head(blocks)
         IN  (IF b.type = "text" /\ b.text # AbsentText THEN << b.text >> ELSE << >>)
             \o TextParts(Tail(blocks))

extractAnthropicText(b) == Join(TextParts(b.content), NL)

mapAnthropicFinishReason(reason) ==
    CASE reason = "max_tokens" -> "length"
      [] reason \in {"stop_sequence", "end_turn"} -> "stop"
      [] OTHER -> IF reason = "" THEN "stop" ELSE reason

getStringValue(v) == IF v = Absent THEN "" ELSE v

convertAnthropicResponse(b) ==
    IF ~b.valid THEN b
    ELSE ChatCompletion(b.model, extractAnthropicText(b),
                        mapAnthropicFinishReason(getStringValue(b.stop)))

(* pkg/anthropic/converter.go *)

mapStopReason(anthropicReason) ==
    IF anthropicReason = "max_tokens" THEN "length" ELSE "stop"

RECURSIVE PkgContent(_)
\* the loop "content += item.Text" of ConvertAnthropicToOpenAI
PkgContent(items) ==
    IF items = << >> THEN << >>
    ELSE LET i == Head(items)
         IN  (IF i.type = "text" /\ i.text # AbsentText THEN i.text ELSE << >>)
             \o PkgContent(Tail(items))

ConvertAnthropicToOpenAI(b) ==
    ChatCompletion(IF b.model = Absent THEN "" ELSE b.model,
                   PkgContent(b.content),
                   mapStopReason(getStringValue(b.stop)))

-----------------------------------------------------------------------------
(* Conversational request conversion.  A string is a sequence of tokens;   *)
(* the token SP is white space.                                            *)

SP == " "

RECURSIVE TrimLeft(_)
TrimLeft(str) == IF str # << >> /\ Head(str) = SP THEN TrimLeft(Tail(str)) ELSE str

RECURSIVE TrimRight(_)
TrimRight(str) ==
    IF str # << >> /\ str[Len(str)] = SP
    THEN TrimRight(SubSeq(str, 1, Len(str) - 1)) ELSE str

\* strings.TrimSpace
TrimSpace(str) == TrimRight(TrimLeft(str))

Roles == {"system", "user", "assistant", "tool", "developer", "User"}

\* strings.ToLower over Roles
ToLower(role) == IF role = "User" THEN "user" ELSE role

Message(role, content) == [role |-> role, content |-> content]

\* a content value of a client message: a JSON string, or a JSON array of
\* {"type":"text","text":X} parts, given by the X values
StringContent(text) == [array |-> FALSE, text |-> text, parts |-> << >>]
ArrayContent(parts) == [array |-> TRUE, text |-> << >>, parts |-> parts]

\* the content of the i-th client message: an empty string, a blank string, a
\* text of its own (with a blank before it), or an array of two text parts
ContentKinds == {"empty", "blank", "text", "parts"}
Content(kind, i) ==
    CASE kind = "empty" -> StringContent(<< >>)
      [] kind = "blank" -> StringContent(<< SP >>)
      [] kind = "text" -> StringContent(<< SP, ToString(i) >>)
      [] OTHER -> ArrayContent(<< << ToString(i) >>, << "b" >> >>)

\* gjson's String() of a content value: the string, or the raw JSON of the array
RawJSON(content) ==
    IF content.array
    THEN << "[" >>
         \o Join([i \in 1..Len(content.parts) |->
                    << "{\"type\":\"text\",\"text\":\"" >> \o content.parts[i]
                    \o << "\"}" >>], << "," >>)
         \o << "]" >>
    ELSE content.text

\* a numeric field is << >> when the request does not carry it
Request(messages, maxTokens, input, prompt) ==
    [messages |-> messages, maxTokens |-> maxTokens, input |-> input,
     prompt |-> prompt]

\* the string field `prompt`: absent or given
Prompts == { << >>, << "pr" >> }

\* max_tokens: absent, negative, zero, positive
MaxTokensValues == { << >>, << -1 >>, << 0 >>, << 5 >> }

\* the string field `input`: absent or given
Inputs == { << >>, << "in" >> }

NoRequest == Request(<< >>, << >>, << >>, << >>)

\* the outcome of a request conversion: an error, or the upstream body
AnthropicRequest(messages, system, maxTokens) ==
    [err |-> FALSE, messages |-> messages, system |-> system,
     maxTokens |-> maxTokens]
Rejected == [err |-> TRUE, messages |-> << >>, system |-> << >>, maxTokens |-> 0]
NoUpstream == AnthropicRequest(<< >>, << >>, 0)

(* legacy pkg/azure Anthropic file: convertOpenAIRequestToAnthropic *)

defaultAnthropicMaxTokens == 1024

\* convertContentToBlocks of a string, or of an array of text parts
convertContentToBlocks(content) ==
    IF content.array
    THEN LET kept == SelectSeq(content.parts, LAMBDA text : text # << >>)
         IN  [i \in 1..Len(kept) |-> TextBlock(kept[i])]
    ELSE IF content.text = << >> THEN << >> ELSE << TextBlock(content.text) >>

flattenContentToString(content) ==
    LET blocks == convertContentToBlocks(content)
    IN  Join([i \in 1..Len(blocks) |-> blocks[i].text], NL)

RECURSIVE Legacy_Loop(_, _, _)
\* the loop over messagesRaw
Legacy_Loop(raw, systemPrompts, anthropicMessages) ==
    IF raw = << >>
    THEN [systemPrompts |-> systemPrompts, anthropicMessages |-> anthropicMessages]
    ELSE LET msg == Head(raw)
             role == ToLower(msg.role)
             blocks == convertContentToBlocks(msg.content)
             text == flattenContentToString(msg.content)
         IN  CASE role = "system" ->
                    Legacy_Loop(Tail(raw),
                                IF text # << >> THEN Append(systemPrompts, text)
                                ELSE systemPrompts,
                                anthropicMessages)
               [] role \in {"user", "assistant"} ->
                    Legacy_Loop(Tail(raw), systemPrompts,
                                IF blocks = << >> THEN anthropicMessages
                                ELSE Append(anthropicMessages, Message(role, blocks)))
               [] role = "tool" ->
                    Legacy_Loop(Tail(raw), systemPrompts,
                                IF blocks = << >> THEN anthropicMessages
                                ELSE Append(anthropicMessages, Message("assistant", blocks)))
               [] OTHER -> Legacy_Loop(Tail(raw), systemPrompts, anthropicMessages)

\* the index i at which the search loop finds a user message, 0 when none
FirstUserIndex(msgs) ==
    LET S == { i \in 2..Len(msgs) : msgs[i].role = "user" }
    IN  IF S = {} THEN 0 ELSE CHOOSE i \in S : \A j \in S : i <= j

\* the rotation: copy(msgs[1:i+1], msgs[0:i]); msgs[0] = userMsg
UserFirst(msgs) ==
    IF msgs[1].role = "user" THEN msgs
    ELSE LET i == FirstUserIndex(msgs)
         IN  IF i = 0 THEN msgs
             ELSE << msgs[i] >> \o SubSeq(msgs, 1, i - 1)
                  \o SubSeq(msgs, i + 1, Len(msgs))

getIntFromInterface(v) == IF v = << >> THEN 0 ELSE v[1]

convertOpenAIRequestToAnthropic(r) ==
    IF r.messages = << >> THEN Rejected
    ELSE LET l == Legacy_Loop(r.messages, << >>, << >>)
             n == getIntFromInterface(r.maxTokens)
         IN  IF l.anthropicMessages = << >> THEN Rejected
             ELSE AnthropicRequest(UserFirst(l.anthropicMessages),
                                   Join(l.systemPrompts, NL),
                                   IF n <= 0 THEN defaultAnthropicMaxTokens ELSE n)

(* pkg/azure/proxy.go: convertChatToAnthropicMessages *)

RECURSIVE Azure_Loop(_, _, _)
\* the loop over messages: the last system message wins
Azure_Loop(messages, systemMessage, anthropicMessages) ==
    IF messages = << >>
    THEN [systemMessage |-> systemMessage, anthropicMessages |-> anthropicMessages]
    ELSE LET msg == Head(messages)
         IN  IF msg.role = "system"
             THEN Azure_Loop(Tail(messages), RawJSON(msg.content),
                             anthropicMessages)
             ELSE Azure_Loop(Tail(messages), systemMessage,
                             Append(anthropicMessages,
                                    Message(msg.role, RawJSON(msg.content))))

convertChatToAnthropicMessages(r) ==
    LET maxTokens == IF r.maxTokens = << >> THEN 0 ELSE r.maxTokens[1]
        l == IF r.input # << >>
             THEN [systemMessage |-> << >>,
                   anthropicMessages |-> << Message("user", r.input) >>]
             ELSE Azure_Loop(r.messages, << >>, << >>)
    IN  AnthropicRequest(l.anthropicMessages, l.systemMessage,
                         IF maxTokens = 0 THEN 1000 ELSE maxTokens)

(* pkg/azure/proxy.go: convertChatToResponses *)

\* the body sent to the Responses API: input is a string for a single user
\* message, else a list of items; maxTokens 0 stands for no max_output_tokens
ResponsesRequest(input, maxOutputTokens) ==
    [err |-> FALSE, messages |-> << >>, system |-> << >>,
     maxTokens |-> maxOutputTokens, input |-> input]

convertChatToResponses(r) ==
    LET messages == r.messages
        maxTokens == IF r.maxTokens = << >> THEN 0 ELSE r.maxTokens[1]
    IN  ResponsesRequest(
            IF Len(messages) = 1 /\ messages[1].role = "user"
            THEN RawJSON(messages[1].content)
            ELSE [i \in 1..Len(messages) |->
                    [role |-> messages[i].role,
                     content |-> << [type |-> "input_text",
                                     text |-> RawJSON(messages[i].content)] >>]],
            IF maxTokens > 0 THEN maxTokens ELSE 0)

(* pkg/anthropic/converter.go: ConvertOpenAIToAnthropic *)

RECURSIVE JoinPieces(_)
\* the loop of extractMessageContent over an array: trimmed pieces, the
\* empty ones skipped, a newline between them
JoinPieces(parts) ==
    IF parts = << >> THEN << >>
    ELSE LET piece == TrimSpace(Head(parts))
             tail == JoinPieces(Tail(parts))
         IN  IF piece = << >> THEN tail
             ELSE IF tail = << >> THEN piece
             ELSE piece \o NL \o tail

extractMessageContent(raw) ==
    IF raw.array THEN JoinPieces(raw.parts) ELSE raw.text

appendSystem(system, fragment) ==
    LET trimmed == TrimSpace(fragment)
    IN  IF trimmed = << >> THEN system
        ELSE IF system = << >> THEN trimmed
        ELSE system \o NL \o trimmed

RECURSIVE normalizeMessages(_, _, _)
\* normalizeMessages over an array of role/content objects
normalizeMessages(source, system, messages) ==
    IF source = << >> THEN [system |-> system, messages |-> messages]
    ELSE LET typed == Head(source)
             content == extractMessageContent(typed.content)
             trimmed == TrimSpace(content)
         IN  IF ToLower(typed.role) = "system"
             THEN normalizeMessages(Tail(source),
                                    appendSystem(system, content), messages)
             ELSE normalizeMessages(Tail(source), system,
                                    IF trimmed # << >>
                                    THEN Append(messages, Message(typed.role, trimmed))
                                    ELSE messages)

\* the messages taken from a string `input`
Pkg_FromInput(input) ==
    IF TrimSpace(input) # << >> THEN << Message("user", TrimSpace(input)) >>
    ELSE IF input # << >> THEN << Message("user", input) >>
    ELSE << >>

ConvertOpenAIToAnthropic(r) ==
    LET n == normalizeMessages(r.messages, << >>, << >>)
        fromInput == IF n.messages # << >> THEN n.messages
                     ELSE Pkg_FromInput(r.input)
        messages == IF fromInput = << >> /\ TrimSpace(r.prompt) # << >>
                    THEN << Message("user", r.prompt) >>
                    ELSE fromInput
    IN  AnthropicRequest(messages, n.system,
                         IF r.maxTokens = << >> THEN 1000 ELSE r.maxTokens[1])

-----------------------------------------------------------------------------
(* pkg/azure/proxy.go: deployment registry.  A model name is a stem, the   *)
(* suffixes that follow it, and whether it is written with capital letters *)

Name(stem, sfx, upper) == [stem |-> stem, sfx |-> sfx, upper |-> upper]

\* a lower-case name
LName(stem, sfx) == Name(stem, sfx, FALSE)

Stems == {"gpt-5.2", "gpt-4", "claude-sonnet-4-5", "o1", "o1-claude", "custom",
          "mine"}

\* -YYYY-MM-DD, -YYYYMMDD, and a suffix that is not a date
Suffixes == {"-2025-12-11", "-20250929", "-0613"}

\* the suffix matches -\d{4}-\d{2}-\d{2} or -\d{8}
IsDateSuffix(sfx) == sfx \in {"-2025-12-11", "-20250929"}

\* strings.ToLower of a model name
LowerName(n) == [n EXCEPT !.upper = FALSE]

\* stripModelVersion: the regular expression is anchored at the end
stripModelVersion(n) ==
    IF n.sfx # << >> /\ IsDateSuffix(n.sfx[Len(n.sfx)])
    THEN [n EXCEPT !.sfx = SubSeq(n.sfx, 1, Len(n.sfx) - 1)]
    ELSE n

\* entries of the table built by init() of pkg/azure
BuiltinMapper ==
    LET K == { LName("gpt-5.2", << >>), LName("gpt-5.2", << "-2025-12-11" >>),
               LName("gpt-4", << >>), LName("gpt-4", << "-0613" >>),
               LName("claude-sonnet-4-5", << >>), LName("o1", << >>) }
    IN  [k \in K |->
           CASE k = LName("gpt-4", << >>) -> LName("gpt-4", << "-0613" >>)
             [] k = LName("claude-sonnet-4-5", << >>) -> LName("claude-sonnet-4.5", << >>)
             [] OTHER -> k]

\* entries AZURE_OPENAI_MODEL_MAPPER can carry: key=deployment
EnvEntries ==
    { << Name("custom", << >>, TRUE), LName("dep-a", << >>) >>,
      << LName("custom", << "-0613" >>), LName("dep-b", << >>) >>,
      << LName("gpt-5.2", << >>), LName("dep-c", << >>) >> }

\* the table after the entries of env were assigned to it
WithEntries(m, env) ==
    LET K == { e[1] : e \in env }
    IN  [k \in (DOMAIN m) \cup K |->
           IF k \in K THEN (CHOOSE e \in env : e[1] = k)[2] ELSE m[k]]

resolveModelDeployment(m, model) ==
    LET modelLower == LowerName(model)
        strippedModel == stripModelVersion(modelLower)
    IN  IF modelLower \in DOMAIN m THEN m[modelLower]
        ELSE IF strippedModel # modelLower /\ strippedModel \in DOMAIN m
             THEN m[strippedModel]
        ELSE model

\* proxy.go: strings.HasPrefix(modelLower, prefix) for a prefix of the list
\* a predicate that compares the name as the client wrote it
isClaudeModel_CaseSensitive(model) ==
    ~model.upper /\ model.stem \in {"claude-sonnet-4-5"}

isClaudeModel(model) == model.stem \in {"claude-sonnet-4-5"}

\* the earlier isClaudeModel: strings.Contains(modelLower, "claude")
Legacy_isClaudeModel(model) == model.stem \in {"claude-sonnet-4-5", "o1-claude"}

\* pkg/anthropic: strings.Contains(strings.ToLower(model), "claude")
IsClaudeModel(model) == model.stem \in {"claude-sonnet-4-5", "o1-claude"}

\* strings.HasPrefix(modelLower, m) for a name m of the list
shouldUseResponsesAPI(model) == model.stem \in {"o1", "o1-claude"}

(* Headers are strings of tokens; "Bearer " is one token *)

Bearer == "Bearer "
HasBearerPrefix(h) == h # << >> /\ Head(h) = Bearer
TrimBearerPrefix(h) == IF HasBearerPrefix(h) THEN Tail(h) ELSE h

\* the configured secret of a serverless deployment
ServerlessKey == << "sk" >>

\* the configured versions
AzureOpenAIAPIVersion == "2024-08-01-preview"
AzureOpenAIResponsesAPIVersion == "2024-08-01-preview"
AnthropicAPIVersion == "2023-06-01"

Inbound(path, model, apiKey, auth, apiVersion) ==
    [path |-> path, model |-> model, apiKey |-> apiKey, auth |-> auth,
     apiVersion |-> apiVersion]

NoInbound == Inbound("", LName("", << >>), << >>, << >>, << >>)

\* the outbound request: upstream family, path, deployment in the path,
\* values of the api-version query parameter, headers, conversions applied
Outbound(family, path, deployment, apiVersion, apiKey, auth, anthropicVersion, converted) ==
    [family |-> family, path |-> path, deployment |-> deployment,
     apiVersion |-> apiVersion, apiKey |-> apiKey, auth |-> auth,
     anthropicVersion |-> anthropicVersion, converted |-> converted]

NoOutbound ==
    Outbound("", "", LName("", << >>), << >>, << >>, << >>, "", << >>)

\* a HandleToken that sets api-key and leaves Authorization in place
HandleToken_KeepsAuthorization(apiKey, auth) ==
    << IF apiKey # << >> THEN apiKey ELSE TrimBearerPrefix(auth), auth >>

\* HandleToken for a model that is not a serverless deployment: the pair
\* << api-key, Authorization >> it leaves
HandleToken(apiKey, auth) ==
    LET k == IF apiKey # << >> THEN apiKey ELSE TrimBearerPrefix(auth)
    IN  IF k = << >> THEN << apiKey, auth >> ELSE << k, << >> >>

\* handleRegularRequest
handleRegularRequest(path, deployment, query, apiKey, auth, converted) ==
    IF path = "/v1/responses"
    THEN Outbound("structured", "/openai/v1/responses", LName("", << >>),
                  << AzureOpenAIResponsesAPIVersion >>, apiKey, auth, "",
                  converted)
    ELSE IF path = "/v1/anthropic/messages"
    THEN Outbound("conversational", "/anthropic/v1/messages", LName("", << >>),
                  query,
                  IF apiKey = << >> THEN apiKey ELSE << >>,
                  IF apiKey = << >> THEN auth ELSE << Bearer >> \o apiKey,
                  AnthropicAPIVersion, converted)
    ELSE Outbound("standard",
                  IF path = "/v1/chat/completions"
                  THEN "/openai/deployments/{deployment}/chat/completions"
                  ELSE "/openai/deployments/{deployment}/embeddings",
                  deployment, query \o << AzureOpenAIAPIVersion >>,
                  apiKey, auth, "", converted)

\* handleServerlessRequest, after HandleToken for a serverless model
handleServerlessRequest(path, query, converted) ==
    Outbound("serverless", path, LName("", << >>), query, << >>,
             << Bearer >> \o ServerlessKey, "", converted)

\* a Claude conversion that leaves the path as it was
AnthropicMessagesPath_Kept(path) == path

\* the path convertChatToAnthropicMessages leaves
AnthropicMessagesPath(path) == "/v1/anthropic/messages"

\* the Claude predicate of build b
ClaudePredicate(b, model) ==
    CASE b = "azure" -> isClaudeModel(model)
      [] b = "legacy" -> Legacy_isClaudeModel(model)
      [] OTHER -> IsClaudeModel(model)

\* the function makeDirector returns; b selects the Claude predicate in use
Director(b, m, sl, r) ==
    LET model == r.model
        claude == ClaudePredicate(b, model) /\ r.path = "/v1/chat/completions"
        path1 == IF claude THEN AnthropicMessagesPath(r.path) ELSE r.path
        responses == path1 = "/v1/chat/completions" /\ shouldUseResponsesAPI(model)
        path2 == IF responses THEN "/v1/responses" ELSE path1
        converted == (IF claude THEN << "conversational" >> ELSE << >>)
                     \o (IF responses THEN << "structured" >> ELSE << >>)
        token == HandleToken(r.apiKey, r.auth)
    IN  IF LowerName(model) \in sl
        THEN handleServerlessRequest(path2, r.apiVersion, converted)
        ELSE handleRegularRequest(path2, resolveModelDeployment(m, model),
                                  r.apiVersion, token[1], token[2], converted)

-----------------------------------------------------------------------------
(* pkg/azure/realtime.go: the Session of a realtime connection *)

\* ClientConn and AzureConn count the calls of Close on the connection: 0 is
\* an open connection.  closeOnce is the state of the sync.Once: "idle",
\* "running" while its function runs, "done" afterwards.
Session(client, azure, closed, once) ==
    [ClientConn |-> client, AzureConn |-> azure, closed |-> closed, closeOnce |-> once]

\* no session: HandleRealtime has not made one
NoSession == Session(0, 0, FALSE, "idle")

\* a relay goroutine is named by the side it reads from
Directions == {"client", "azure"}

\* the position of a goroutine, what it does when handleError returns
\* ("return" or "continue"), and the type of the message it holds
Goroutine(at, after, msg) == [at |-> at, after |-> after, msg |-> msg]

Relay(handler, client, azure) == [handler |-> handler, client |-> client, azure |-> azure]

\* no connection has arrived and no goroutine runs
NoRelay == Relay("idle", Goroutine("idle", "", ""), Goroutine("idle", "", ""))

-----------------------------------------------------------------------------
(* pkg/azure/proxy.go: modifyResponse and the background conversion task *)

Builds == {"azure", "legacy", "pkg"}

\* the stream converter modifyResponse starts for a response
Converter == IF res.upath = "anthropic" THEN build ELSE "responses"

\* X-Model, "unknown" when the header is missing
StreamModel == IF res.xModel = "" THEN "unknown" ELSE res.xModel

\* modifyResponse hands the body to a stream converter
StreamConverted(r) == r.ctype = "sse" /\ r.origPath

ConvertLine(line, et, id, model) ==
    CASE Converter = "azure" -> Azure_ConvertLine(line, et, id, model)
      [] Converter = "legacy" -> Legacy_ConvertLine(line, et, id, model)
      [] Converter = "pkg" -> Pkg_ConvertLine(line, et, id, model)
      [] OTHER -> Responses_ConvertLine(line, et, id, model)

\* the conversational non-streaming converter of the build
AnthropicResponse(b) ==
    CASE build = "azure" -> convertAnthropicToChatCompletion(b, res.xModel)
      [] build = "legacy" -> convertAnthropicResponse(b)
      [] OTHER -> ConvertAnthropicToOpenAI(b)

\* the non-streaming part of modifyResponse
NonStreamBody(r, b) ==
    IF r.status = 200 /\ r.origPath
    THEN CASE r.upath = "responses" -> convertResponsesToChatCompletion(b)
           [] r.upath = "anthropic" -> AnthropicResponse(b)
           [] OTHER -> b
    ELSE b

Init ==
    /\ res \in ResponseHeads
    /\ build \in Builds
    /\ (res.upath # "anthropic" => build = "azure")
    /\ body \in (IF res.ctype = "sse" THEN {NoBody} ELSE BodiesFor(res))
    /\ (build = "pkg" /\ res.ctype # "sse" => body.valid)
    /\ upstream = << >>
    /\ rest = << >>
    /\ eventType = ""
    /\ messageID = ""
    /\ pending = << >>
    /\ retAfter = FALSE
    /\ clientGot = << >>
    /\ prClosed = FALSE
    /\ pwClosed = FALSE
    /\ bodyClosed = FALSE
    /\ clientEOF = FALSE
    /\ writeFailed = FALSE
    /\ result = "running"
    /\ clientBody = Nothing
    /\ pc = "modify"
    /\ req = NoRequest
    /\ upReq = NoUpstream
    /\ rpc = "responding"
    /\ mapper = BuiltinMapper
    /\ serverless = {}
    /\ inbound = NoInbound
    /\ outbound = NoOutbound
    /\ dpc = "idle"
    /\ session = NoSession
    /\ relay = NoRelay
    /\ forwarded = << >>

modifyResponse ==
    /\ pc = "modify"
    /\ IF res.ctype = "sse"
       THEN IF res.origPath
            THEN /\ pc' = "scan"
                 /\ clientBody' = clientBody
            ELSE /\ pc' = "done"
                 /\ clientBody' = StreamThrough
       ELSE /\ pc' = "done"
            /\ clientBody' = NonStreamBody(res, body)
    /\ UNCHANGED << session, relay, forwarded, mapper, serverless, inbound, outbound, dpc, req, upReq, rpc, build, res, body >>
    /\ UNCHANGED streamVars

\* Convert returns r; the deferred res.Body.Close() and pw.Close() run
Return(r) ==
    /\ result' = r
    /\ bodyClosed' = TRUE
    /\ pwClosed' = TRUE
    /\ pc' = "done"

\* the upstream sends the next block of its stream
UpstreamSend ==
    /\ pc = "scan"
    /\ rest = << >>
    /\ Len(upstream) < MaxEvents
    /\ \E b \in BlocksFor(res) :
         /\ upstream' = Append(upstream, b)
         /\ rest' = b
    /\ UNCHANGED << session, relay, forwarded, mapper, serverless, inbound, outbound, dpc, req, upReq, rpc, build, res, body, clientBody, pc, eventType, messageID,
                    pending, retAfter, clientGot, prClosed, pwClosed,
                    bodyClosed, clientEOF, writeFailed, result >>

\* variant: the end of the upstream body is answered with [DONE]
UpstreamEOF_WritesDone ==
    /\ pc = "scan"
    /\ rest = << >>
    /\ Return("nil")
    /\ clientGot' = Append(clientGot, DoneFrame)
    /\ UNCHANGED << session, relay, forwarded, mapper, serverless, inbound, outbound, dpc, req, upReq, rpc, build, res, body, clientBody, upstream, rest, eventType,
                    messageID, pending, retAfter, prClosed, clientEOF,
                    writeFailed >>

\* variant: a scan error leaves the write end of the pipe open
ScanError_LeavesPipeOpen ==
    /\ pc = "scan"
    /\ rest = << >>
    /\ result' = "error"
    /\ bodyClosed' = TRUE
    /\ pc' = "done"
    /\ UNCHANGED << session, relay, forwarded, mapper, serverless, inbound, outbound, dpc, req, upReq, rpc, build, res, body, clientBody, upstream, rest, eventType,
                    messageID, pending, retAfter, clientGot, prClosed,
                    pwClosed, clientEOF, writeFailed >>

\* scanner.Scan() returns false at the end of the upstream body
UpstreamEOF ==
    /\ pc = "scan"
    /\ rest = << >>
    /\ Return("nil")
    /\ UNCHANGED << session, relay, forwarded, mapper, serverless, inbound, outbound, dpc, req, upReq, rpc, build, res, body, clientBody, upstream, rest, eventType,
                    messageID, pending, retAfter, clientGot, prClosed,
                    clientEOF, writeFailed >>

\* scanner.Scan() returns false and scanner.Err() is not nil
ScanError ==
    /\ pc = "scan"
    /\ rest = << >>
    /\ Return("error")
    /\ UNCHANGED << session, relay, forwarded, mapper, serverless, inbound, outbound, dpc, req, upReq, rpc, build, res, body, clientBody, upstream, rest, eventType,
                    messageID, pending, retAfter, clientGot, prClosed,
                    clientEOF, writeFailed >>

\* one iteration of the scan loop up to its first Write
ScanLine ==
    /\ pc = "scan"
    /\ rest # << >>
    /\ LET s == ConvertLine(Head(rest), eventType, messageID, StreamModel)
       IN  /\ eventType' = s.et
           /\ messageID' = s.id
           /\ rest' = Tail(rest)
           /\ pending' = s.frames
           /\ retAfter' = s.ret
           /\ pc' = IF s.frames = << >> THEN "scan" ELSE "write"
    /\ UNCHANGED << session, relay, forwarded, mapper, serverless, inbound, outbound, dpc, req, upReq, rpc, build, res, body, clientBody, upstream, clientGot,
                    prClosed, pwClosed, bodyClosed, clientEOF, writeFailed,
                    result >>

\* the frames left to write after a Write on the pipe failed:
\* StreamConverter.handleMessageStop gives up at the first error, the other
\* converters ignore the error
AfterFailedWrite(frames) ==
    IF Converter = "pkg" THEN << >> ELSE Tail(frames)

\* the task goes on after the last Write of an iteration
AfterWrites(left) ==
    IF left # << >> THEN
        /\ pc' = "write"
        /\ UNCHANGED << result, bodyClosed, pwClosed >>
    ELSE IF retAfter THEN Return("nil")
    ELSE /\ pc' = "scan"
         /\ UNCHANGED << result, bodyClosed, pwClosed >>

\* a Write on the pipe completes: the client has read the frame
PipeWrite ==
    /\ pc = "write"
    /\ ~prClosed
    /\ clientGot' = Append(clientGot, Head(pending))
    /\ pending' = Tail(pending)
    /\ AfterWrites(Tail(pending))
    /\ UNCHANGED << session, relay, forwarded, mapper, serverless, inbound, outbound, dpc, req, upReq, rpc, build, res, body, clientBody, upstream, rest, eventType,
                    messageID, retAfter, prClosed, clientEOF, writeFailed >>

\* a Write on the pipe fails: the read end is closed
PipeWriteFail ==
    /\ pc = "write"
    /\ prClosed
    /\ writeFailed' = TRUE
    /\ pending' = AfterFailedWrite(pending)
    /\ AfterWrites(AfterFailedWrite(pending))
    /\ UNCHANGED << session, relay, forwarded, mapper, serverless, inbound, outbound, dpc, req, upReq, rpc, build, res, body, clientBody, upstream, rest, eventType,
                    messageID, retAfter, clientGot, prClosed, clientEOF >>

\* the client side closes the read end of the pipe
ClientClose ==
    /\ pc \in {"scan", "write"}
    /\ ~prClosed
    /\ prClosed' = TRUE
    /\ UNCHANGED << session, relay, forwarded, mapper, serverless, inbound, outbound, dpc, req, upReq, rpc, build, res, body, clientBody, upstream, rest, eventType,
                    messageID, pending, retAfter, clientGot, pwClosed,
                    bodyClosed, clientEOF, writeFailed, result, pc >>

\* the client reads end-of-stream from the pipe
ClientReadEOF ==
    /\ pc = "done"
    /\ pwClosed
    /\ ~prClosed
    /\ ~clientEOF
    /\ clientEOF' = TRUE
    /\ UNCHANGED << session, relay, forwarded, mapper, serverless, inbound, outbound, dpc, req, upReq, rpc, build, res, body, clientBody, upstream, rest, eventType,
                    messageID, pending, retAfter, clientGot, prClosed,
                    pwClosed, bodyClosed, writeFailed, result, pc >>

Next ==
    \/ modifyResponse
    \/ UpstreamSend
    \/ UpstreamEOF
    \/ ScanError
    \/ ScanLine
    \/ PipeWrite
    \/ PipeWriteFail
    \/ ClientClose
    \/ ClientReadEOF

Spec == Init /\ [][Next]_vars

\* goroutines are scheduled, the client keeps reading until it closes, and
\* the upstream stops sending
\* the upstream sends a block of a stream of at most MaxFairEvents blocks
FairUpstreamSend == Len(upstream) < MaxFairEvents /\ UpstreamSend

FairNext ==
    \/ modifyResponse
    \/ FairUpstreamSend
    \/ UpstreamEOF
    \/ ScanError
    \/ ScanLine
    \/ PipeWrite
    \/ PipeWriteFail
    \/ ClientClose
    \/ ClientReadEOF

FairSpec ==
    /\ Init
    /\ [][FairNext]_vars
    /\ WF_vars(modifyResponse)
    /\ WF_vars(ScanLine)
    /\ WF_vars(PipeWrite)
    /\ WF_vars(PipeWriteFail)
    /\ WF_vars(UpstreamEOF \/ ScanError)
    /\ WF_vars(ClientReadEOF)

-----------------------------------------------------------------------------
(* The director converts a chat-completions request for a Claude model *)

respVars == << res, body, upstream, rest, eventType, messageID, pending,
               retAfter, clientGot, prClosed, pwClosed, bodyClosed, clientEOF,
               writeFailed, result, clientBody, pc >>

\* handleClaudeProxyRequest: a conversion error stops the request
handleClaudeProxyRequest ==
    /\ rpc = "received"
    /\ build = "legacy"
    /\ upReq' = convertOpenAIRequestToAnthropic(req)
    /\ rpc' = IF upReq'.err THEN "rejected" ELSE "forwarded"
    /\ UNCHANGED << req, build >>
    /\ UNCHANGED respVars
    /\ UNCHANGED rtVars
    /\ UNCHANGED dirVars

\* makeDirector, for a Claude model on /v1/chat/completions
makeDirector ==
    /\ rpc = "received"
    /\ build = "azure"
    /\ upReq' = convertChatToAnthropicMessages(req)
    /\ rpc' = "forwarded"
    /\ UNCHANGED << req, build >>
    /\ UNCHANGED respVars
    /\ UNCHANGED rtVars
    /\ UNCHANGED dirVars

\* makeDirector, for a Responses API model on /v1/chat/completions
makeDirector_Responses ==
    /\ rpc = "received"
    /\ build = "azure"
    /\ upReq' = convertChatToResponses(req)
    /\ rpc' = "structured"
    /\ UNCHANGED << req, build >>
    /\ UNCHANGED respVars
    /\ UNCHANGED rtVars
    /\ UNCHANGED dirVars

\* CreateRequestBody: the body built by pkg/anthropic is sent upstream
CreateRequestBody ==
    /\ rpc = "received"
    /\ build = "pkg"
    /\ upReq' = ConvertOpenAIToAnthropic(req)
    /\ rpc' = "forwarded"
    /\ UNCHANGED << req, build >>
    /\ UNCHANGED respVars
    /\ UNCHANGED rtVars
    /\ UNCHANGED dirVars

ReqInit ==
    /\ build \in Builds
    /\ \E k \in 0..MaxMsgs :
         \E f \in [1..k -> Roles \X ContentKinds] :
           \E t \in MaxTokensValues, i \in Inputs, p \in Prompts :
             req = Request([j \in 1..k |-> Message(f[j][1], Content(f[j][2], j))],
                           t, i, p)
    /\ upReq = NoUpstream
    /\ rpc = "received"
    /\ res = [status |-> 200, ctype |-> "json", upath |-> "anthropic",
              origPath |-> TRUE, xModel |-> ClientModel]
    /\ body = NoBody
    /\ upstream = << >>
    /\ rest = << >>
    /\ eventType = ""
    /\ messageID = ""
    /\ pending = << >>
    /\ retAfter = FALSE
    /\ clientGot = << >>
    /\ prClosed = FALSE
    /\ pwClosed = FALSE
    /\ bodyClosed = FALSE
    /\ clientEOF = FALSE
    /\ writeFailed = FALSE
    /\ result = "running"
    /\ clientBody = Nothing
    /\ pc = "request"
    /\ mapper = BuiltinMapper
    /\ serverless = {}
    /\ inbound = NoInbound
    /\ outbound = NoOutbound
    /\ dpc = "idle"
    /\ session = NoSession
    /\ relay = NoRelay
    /\ forwarded = << >>

ReqNext ==
    \/ handleClaudeProxyRequest
    \/ makeDirector
    \/ makeDirector_Responses
    \/ CreateRequestBody

SpecReq == ReqInit /\ [][ReqNext]_vars

-----------------------------------------------------------------------------
(* The director: registry set-up, then one request through makeDirector *)

ModelNames ==
    { Name(st, sf, u) : st \in Stems, sf \in SeqsUpTo(Suffixes, MaxSuffixes),
                        u \in BOOLEAN }

Paths == {"/v1/chat/completions", "/v1/embeddings", "/v1/responses"}
ApiKeys == { << >>, << "k1" >> }
\* the server trims header values, so none ends with the blank of "Bearer "
Authorizations == { << >>, << Bearer, "k2" >>, << "k2" >> }
ApiVersions == { << >>, << "client-version" >> }

\* init() of main: the pairs of AZURE_OPENAI_MODEL_MAPPER are assigned
main_init ==
    /\ dpc = "init"
    /\ \E env \in SUBSET EnvEntries :
         mapper' = WithEntries(mapper, env)
    /\ dpc' = "ready"
    /\ UNCHANGED << serverless, inbound, outbound >>
    /\ UNCHANGED << req, upReq, rpc, build >>
    /\ UNCHANGED respVars
    /\ UNCHANGED rtVars

\* handleAzureProxy: the reverse proxy runs the director on the request
handleAzureProxy ==
    /\ dpc = "ready"
    /\ \E p \in Paths, n \in ModelNames, k \in ApiKeys, a \in Authorizations,
          v \in ApiVersions :
         /\ inbound' = Inbound(p, n, k, a, v)
         /\ outbound' = Director(build, mapper, serverless, inbound')
    /\ dpc' = "sent"
    /\ UNCHANGED << mapper, serverless >>
    /\ UNCHANGED << req, upReq, rpc, build >>
    /\ UNCHANGED respVars
    /\ UNCHANGED rtVars

\* init() of pkg/azure has built the table and the serverless deployments
DirInit ==
    /\ build \in Builds
    /\ mapper = BuiltinMapper
    /\ serverless \in { {}, { LName("mine", << >>) } }
    /\ inbound = NoInbound
    /\ outbound = NoOutbound
    /\ dpc = "init"
    /\ session = NoSession
    /\ relay = NoRelay
    /\ forwarded = << >>
    /\ req = NoRequest
    /\ upReq = NoUpstream
    /\ rpc = "idle"
    /\ res = [status |-> 200, ctype |-> "json", upath |-> "anthropic",
              origPath |-> TRUE, xModel |-> ClientModel]
    /\ body = NoBody
    /\ upstream = << >>
    /\ rest = << >>
    /\ eventType = ""
    /\ messageID = ""
    /\ pending = << >>
    /\ retAfter = FALSE
    /\ clientGot = << >>
    /\ prClosed = FALSE
    /\ pwClosed = FALSE
    /\ bodyClosed = FALSE
    /\ clientEOF = FALSE
    /\ writeFailed = FALSE
    /\ result = "running"
    /\ clientBody = Nothing
    /\ pc = "request"

DirNext ==
    \/ main_init
    \/ handleAzureProxy

SpecDir == DirInit /\ [][DirNext]_vars

-----------------------------------------------------------------------------
(* pkg/azure/realtime.go: HandleRealtime, relayMessages and Close *)

MessageTypes == {"text", "binary"}

Open(conn) == conn = 0

\* the connection a goroutine reads from and the one it forwards to
ReadConn(g) == IF g = "client" THEN session.ClientConn ELSE session.AzureConn
WriteConn(g) == IF g = "client" THEN session.AzureConn ELSE session.ClientConn

\* where a goroutine goes when handleError returns
Resume(after) == IF after = "continue" THEN "read" ELSE "stopped"

\* HandleRealtime: without a parameter, an upgrade or an Azure connection it
\* returns with no Session; when sendSessionCreated fails it closes the
\* session; otherwise relayMessages starts the two goroutines
HandleRealtime ==
    /\ relay.handler = "waiting"
    /\ \/ /\ relay' = [relay EXCEPT !.handler = "returned"]
          /\ UNCHANGED session
       \/ /\ relay' = [relay EXCEPT !.handler = "returned"]
          /\ session' = Session(1, 1, TRUE, "done")
       \/ /\ relay' = Relay("returned", Goroutine("read", "", ""),
                                        Goroutine("read", "", ""))
          /\ UNCHANGED session
    /\ UNCHANGED forwarded
    /\ UNCHANGED << build, req, upReq, rpc, mapper, serverless, inbound, outbound, dpc >>
    /\ UNCHANGED respVars

\* ReadMessage returns a message of the other side; a text message of the
\* client goes through handlePossibleSessionUpdate first
ReadMessage(g) ==
    /\ relay[g].at = "read"
    /\ Open(ReadConn(g))
    /\ Len(forwarded) < MaxRelayed
    /\ \E t \in MessageTypes :
         relay' = [relay EXCEPT ![g] =
                     Goroutine(IF g = "client" /\ t = "text" THEN "update" ELSE "write",
                               "", t)]
    /\ UNCHANGED << session, forwarded >>
    /\ UNCHANGED << build, req, upReq, rpc, mapper, serverless, inbound, outbound, dpc >>
    /\ UNCHANGED respVars

\* ReadMessage returns an error: the connection was closed here, or the
\* other side failed; handleError is called and the goroutine returns after it
ReadMessage_Error(g) ==
    /\ relay[g].at = "read"
    /\ relay' = [relay EXCEPT ![g] = Goroutine("once", "return", "")]
    /\ UNCHANGED << session, forwarded >>
    /\ UNCHANGED << build, req, upReq, rpc, mapper, serverless, inbound, outbound, dpc >>
    /\ UNCHANGED respVars

\* handlePossibleSessionUpdate: nil, or an error (the text is not JSON, the
\* session config does not parse, session.updated cannot be written); after
\* handleError the loop continues
handlePossibleSessionUpdate ==
    /\ relay.client.at = "update"
    /\ \/ relay' = [relay EXCEPT !.client.at = "write"]
       \/ relay' = [relay EXCEPT !.client = Goroutine("once", "continue", "")]
    /\ UNCHANGED << session, forwarded >>
    /\ UNCHANGED << build, req, upReq, rpc, mapper, serverless, inbound, outbound, dpc >>
    /\ UNCHANGED respVars

\* WriteMessage forwards the message: it succeeds only on a connection that
\* is open here; on an error handleError is called and the goroutine returns
WriteMessage(g) ==
    /\ relay[g].at = "write"
    /\ \/ /\ Open(WriteConn(g))
          /\ forwarded' = Append(forwarded, [from |-> g, type |-> relay[g].msg,
                                             closed |-> session.closed])
          /\ relay' = [relay EXCEPT ![g] = Goroutine("read", "", "")]
       \/ /\ relay' = [relay EXCEPT ![g] = Goroutine("once", "return", "")]
          /\ UNCHANGED forwarded
    /\ UNCHANGED session
    /\ UNCHANGED << build, req, upReq, rpc, mapper, serverless, inbound, outbound, dpc >>
    /\ UNCHANGED respVars

\* handleError calls Close: closeOnce.Do runs the function in the first
\* caller, makes a caller that arrives meanwhile wait, and returns at once
\* when the function has run
Close_Do(g) ==
    /\ relay[g].at = "once"
    /\ \/ /\ session.closeOnce = "idle"
          /\ session' = [session EXCEPT !.closeOnce = "running"]
          /\ relay' = [relay EXCEPT ![g].at = "lock"]
       \/ /\ session.closeOnce = "done"
          /\ relay' = [relay EXCEPT ![g].at = Resume(relay[g].after)]
          /\ UNCHANGED session
    /\ UNCHANGED forwarded
    /\ UNCHANGED << build, req, upReq, rpc, mapper, serverless, inbound, outbound, dpc >>
    /\ UNCHANGED respVars

\* s.closed = true under closeMutex
Close_SetClosed(g) ==
    /\ relay[g].at = "lock"
    /\ session' = [session EXCEPT !.closed = TRUE]
    /\ relay' = [relay EXCEPT ![g].at = "closeClient"]
    /\ UNCHANGED forwarded
    /\ UNCHANGED << build, req, upReq, rpc, mapper, serverless, inbound, outbound, dpc >>
    /\ UNCHANGED respVars

\* s.ClientConn.Close()
Close_ClientConn(g) ==
    /\ relay[g].at = "closeClient"
    /\ session' = [session EXCEPT !.ClientConn = @ + 1]
    /\ relay' = [relay EXCEPT ![g].at = "closeAzure"]
    /\ UNCHANGED forwarded
    /\ UNCHANGED << build, req, upReq, rpc, mapper, serverless, inbound, outbound, dpc >>
    /\ UNCHANGED respVars

\* s.AzureConn.Close(); the function of closeOnce returns, and so does
\* handleError
Close_AzureConn(g) ==
    /\ relay[g].at = "closeAzure"
    /\ session' = [session EXCEPT !.AzureConn = @ + 1, !.closeOnce = "done"]
    /\ relay' = [relay EXCEPT ![g].at = Resume(relay[g].after)]
    /\ UNCHANGED forwarded
    /\ UNCHANGED << build, req, upReq, rpc, mapper, serverless, inbound, outbound, dpc >>
    /\ UNCHANGED respVars

\* a connection has arrived at /openai/realtime
RTInit ==
    /\ build = "azure"
    /\ session = NoSession
    /\ relay = [NoRelay EXCEPT !.handler = "waiting"]
    /\ forwarded = << >>
    /\ mapper = BuiltinMapper
    /\ serverless = {}
    /\ inbound = NoInbound
    /\ outbound = NoOutbound
    /\ dpc = "idle"
    /\ req = NoRequest
    /\ upReq = NoUpstream
    /\ rpc = "idle"
    /\ res = [status |-> 200, ctype |-> "json", upath |-> "anthropic",
              origPath |-> TRUE, xModel |-> ClientModel]
    /\ body = NoBody
    /\ upstream = << >>
    /\ rest = << >>
    /\ eventType = ""
    /\ messageID = ""
    /\ pending = << >>
    /\ retAfter = FALSE
    /\ clientGot = << >>
    /\ prClosed = FALSE
    /\ pwClosed = FALSE
    /\ bodyClosed = FALSE
    /\ clientEOF = FALSE
    /\ writeFailed = FALSE
    /\ result = "running"
    /\ clientBody = Nothing
    /\ pc = "request"

RTNext ==
    \/ HandleRealtime
    \/ \E g \in Directions : ReadMessage(g)
    \/ \E g \in Directions : ReadMessage_Error(g)
    \/ handlePossibleSessionUpdate
    \/ \E g \in Directions : WriteMessage(g)
    \/ \E g \in Directions : Close_Do(g)
    \/ \E g \in Directions : Close_SetClosed(g)
    \/ \E g \in Directions : Close_ClientConn(g)
    \/ \E g \in Directions : Close_AzureConn(g)

SpecRT == RTInit /\ [][RTNext]_vars

\* the steps of goroutine g that the scheduler runs once they can run: all
\* but a read on a connection that is still open, which waits for the other
\* side
Runs(g) ==
    \/ ReadMessage_Error(g) /\ ~Open(ReadConn(g))
    \/ g = "client" /\ handlePossibleSessionUpdate
    \/ WriteMessage(g)
    \/ Close_Do(g)
    \/ Close_SetClosed(g)
    \/ Close_ClientConn(g)
    \/ Close_AzureConn(g)

FairSpecRT == SpecRT /\ \A g \in Directions : WF_vars(Runs(g))

-----------------------------------------------------------------------------
(* Helpers for the properties *)

\* the conversational stream converters, and all stream converters
Conversational == Converter \in Builds
Streaming == pc # "modify" /\ StreamConverted(res)

\* what a frame says, its id and model left aside
Shape(f) == << f.t, f.delta, f.content, f.finish >>
RoleShape == << "chunk", "role", "", "null" >>
ContentShape(t) == << "chunk", "content", t, "null" >>
FinishShape(r) == << "chunk", "empty", "", r >>
DoneShape == << "done", "", "", "" >>

Shapes(frames) == [i \in 1..Len(frames) |-> Shape(frames[i])]

IsTextDelta(b) ==
    \E t \in {"Hi", " there"} : b = Event("content_block_delta", PText(t))

\* message_start, n >= 0 text deltas, message_stop
StartDeltasStop(blocks) ==
    /\ Len(blocks) >= 2
    /\ blocks[1] = Event("message_start", PStart)
    /\ blocks[Len(blocks)] = Event("message_stop", PObj)
    /\ \A i \in 2..(Len(blocks) - 1) : IsTextDelta(blocks[i])

\* the frames the spec expects for such a stream
ExpectedShapes(blocks) ==
    << RoleShape >>
    \o [i \in 1..(Len(blocks) - 2) |-> ContentShape(blocks[i + 1][2].p.text)]
    \o << FinishShape("stop"), DoneShape >>

\* Convert has returned and the client read all it wrote
ConvertedToEnd == Streaming /\ pc = "done" /\ ~prClosed

\* C1: a stream message_start, n text deltas, message_stop is converted by
\* the conversational converters of streaming.go and of pkg/anthropic to a
\* role chunk, the n content chunks in order, a finish_reason "stop" chunk,
\* then [DONE]
C1_StartDeltasStop ==
    (/\ Converter \in {"azure", "pkg"}
     /\ res.status = 200
     /\ ConvertedToEnd
     /\ StartDeltasStop(upstream))
    => Shapes(clientGot) = ExpectedShapes(upstream)

\* C2: in every stream converter [DONE] is written at most once and is the
\* last frame of the output
C2_DoneOnceAndLast ==
    \A i \in 1..Len(clientGot) :
        clientGot[i].t = "done" => i = Len(clientGot)

\* the completion event of the converter in use is among the blocks sent
CompletionName == IF Converter = "responses" THEN "response.completed" ELSE "message_stop"
\* the payloads a converter dispatches under the completion event: its
\* handler does not parse them; only the legacy loop has no ping filter
CompletionData == {PObj, PBad} \cup (IF Converter = "legacy" THEN {PPing} ELSE {})
CompletionObserved ==
    \E i \in 1..Len(upstream) :
        \E p \in CompletionData : upstream[i] = Event(CompletionName, p)

HasDone(frames) == \E i \in 1..Len(frames) : frames[i].t = "done"

IsPrefix(s, t) == Len(s) <= Len(t) /\ SubSeq(t, 1, Len(s)) = s

\* C3: [DONE] is written only if a completion event was observed; a stream
\* that ends without one makes Convert return success without [DONE]; a scan
\* failure makes Convert (of streaming.go) return an error with no [DONE] in
\* its output and nothing written after it; the frames already written stay
C3_DoneOnlyOnCompletion ==
    /\ [](HasDone(clientGot \o pending) => CompletionObserved)
    /\ [](result = "error" /\ Converter \in {"azure", "responses"}
            => ~HasDone(clientGot))
    /\ [][result' = "error" => clientGot' = clientGot /\ pending' = << >>]_vars
    /\ [][result = "error" => clientGot' = clientGot]_vars
    /\ [][IsPrefix(clientGot, clientGot')]_vars

\* a scan failure after frames were delivered, none of them [DONE]
C3_Witness ==
    /\ Converter \in {"azure", "responses"}
    /\ result = "error"
    /\ Len(clientGot) > 0
    /\ ~CompletionObserved

C5_StopsOnClosedPipe == writeFailed => pc # "scan"

\* the body delivered to the client is the upstream body
DeliveredVerbatim ==
    IF res.ctype = "sse" THEN clientBody = StreamThrough ELSE clientBody = body

\* C6: a response with a non-2xx status or a JSON body with an error field
\* is delivered to the client as the upstream sent it
C6_ErrorsPassThrough ==
    (pc = "done" /\ (res.status # 200 \/ (body.valid /\ body.error)))
    => DeliveredVerbatim

\* C7: every converted response and every converted chunk carries the model
\* string the client sent
C7_ModelEchoed ==
    /\ (clientBody.kind = "chat.completion" => clientBody.model = ClientModel)
    /\ \A i \in 1..Len(clientGot) :
          clientGot[i].t = "chunk" => clientGot[i].model = ClientModel

\* the texts of the text-typed content blocks, concatenated
RECURSIVE TextOfBlocks(_)
TextOfBlocks(blocks) ==
    IF blocks = << >> THEN << >>
    ELSE (IF Head(blocks).type = "text" THEN Head(blocks).text ELSE << >>)
         \o TextOfBlocks(Tail(blocks))

\* C10: the content of a converted non-streaming conversational response is
\* the concatenation of the texts of its text-typed content blocks
C10_ContentIsConcatenation ==
    (res.upath = "anthropic" /\ clientBody.kind = "chat.completion")
    => clientBody.content = TextOfBlocks(body.content)

\* the text of an upstream message: the legacy converter sends content
\* blocks, the other two send a string
TextOf(m) == IF build = "legacy" THEN TextOfBlocks(m.content) ELSE m.content

\* C8: every conversational request body forwarded upstream has a message
\* list whose first entry has role "user"
C8_FirstIsUser ==
    rpc = "forwarded"
    => upReq.messages # << >> /\ upReq.messages[1].role = "user"

\* the conversational converter has run
Converted == rpc \in {"forwarded", "rejected"}

\* the client messages that are not system messages
NonSystem(msgs) == SelectSeq(msgs, LAMBDA m : m.role # "system")

\* the text of a client content value: the string, or the texts of the
\* parts joined with a newline
Normalized(content) ==
    IF content.array THEN Join(content.parts, NL) ELSE content.text

\* C9: when the first non-system client message is not a user message and
\* a later user message exists, the upstream list is the non-system client
\* messages with the first user message moved to the front: same messages,
\* same number, the others in their relative order
C9_FirstUserMovedToFront ==
    LET ns == NonSystem(req.messages)
    IN  (/\ Converted
         /\ req.input = << >>
         /\ ns # << >>
         /\ ns[1].role # "user"
         /\ FirstUserIndex(ns) # 0)
        => /\ rpc = "forwarded"
           /\ [i \in 1..Len(upReq.messages) |-> TextOf(upReq.messages[i])]
                = [i \in 1..Len(ns) |-> Normalized(UserFirst(ns)[i].content)]

\* the client messages that are not system messages and have content
WithContent(msgs) ==
    SelectSeq(msgs, LAMBDA m : /\ ToLower(m.role) # "system"
                               /\ TrimSpace(Normalized(m.content)) # << >>)

\* the upstream messages come from the field `messages`
FromMessages == Converted /\ req.input = << >> /\ req.prompt = << >>

\* C14: every non-system client message that has content is in the upstream
\* message list, none is dropped for its role, and every upstream message has
\* role user or assistant.
C14_RolesUserOrAssistant ==
    FromMessages /\ WithContent(req.messages) # << >>
        => /\ rpc = "forwarded"
           /\ Len(upReq.messages) >= Len(WithContent(req.messages))
           /\ \A i \in 1..Len(upReq.messages) :
                 upReq.messages[i].role \in {"user", "assistant"}

\* the default the converter of the build uses for max_tokens
DefaultMaxTokens == IF build = "legacy" THEN defaultAnthropicMaxTokens ELSE 1000

\* C15: the upstream body carries a positive max_tokens: the client's value
\* when that is positive, the default when it is absent, zero or negative.
C15_PositiveMaxTokens ==
    rpc = "forwarded"
        => /\ upReq.maxTokens > 0
           /\ upReq.maxTokens
                = IF req.maxTokens # << >> /\ req.maxTokens[1] > 0
                  THEN req.maxTokens[1] ELSE DefaultMaxTokens

\* the upstream list is the one user message with this text
OneUserMessage(text) ==
    /\ rpc = "forwarded"
    /\ Len(upReq.messages) = 1
    /\ upReq.messages[1].role = "user"
    /\ TextOf(upReq.messages[1]) = text

\* C16: the upstream messages come from `messages` when that field yields
\* a message, also when `input` is present; from `input`, as one user
\* message, when `messages` yields none; from a non-blank `prompt` when
\* `input` yields none either.
C16_MessagesThenInputThenPrompt ==
    Converted =>
        IF WithContent(req.messages) # << >>
        THEN /\ rpc = "forwarded"
             /\ upReq.messages # << >>
             /\ \A i \in 1..Len(upReq.messages) :
                   TextOf(upReq.messages[i]) \notin {req.input, req.prompt}
        ELSE IF NonSystem(req.messages) # << >> THEN TRUE
        ELSE IF req.input # << >> THEN OneUserMessage(req.input)
        ELSE IF req.prompt # << >> THEN OneUserMessage(req.prompt)
        ELSE TRUE

\* no message can be produced from the request: it has no messages, or
\* every message has empty content, and it has no input and no prompt
NoMessagePossible ==
    /\ \A i \in 1..Len(req.messages) : Normalized(req.messages[i].content) = << >>
    /\ req.input = << >>
    /\ req.prompt = << >>

\* C17: a request from which no message can be produced ends in a client
\* error and is not forwarded, by the conversational converter and by the
\* structured converter alike.
C17_NoMessageIsClientError ==
    rpc # "received" /\ NoMessagePossible => rpc = "rejected"

\* the texts of the client's system messages, in order, empty ones left out
SystemTexts(msgs) ==
    LET sys == SelectSeq(msgs, LAMBDA m : /\ ToLower(m.role) = "system"
                                          /\ Normalized(m.content) # << >>)
    IN  [i \in 1..Len(sys) |-> Normalized(sys[i].content)]

\* C18: the upstream system field is the texts of the client's system
\* messages joined with a newline in their order, absent when there is none,
\* and no upstream message has role system.
C18_SystemJoined ==
    rpc = "forwarded"
        => /\ upReq.system = Join(SystemTexts(req.messages), NL)
           /\ \A i \in 1..Len(upReq.messages) :
                 upReq.messages[i].role # "system"

\* the client messages are converted one to one: they are user and
\* assistant messages with content, a user message first
OneToOne ==
    LET ns == NonSystem(req.messages)
    IN  /\ FromMessages
        /\ ns # << >>
        /\ ns = WithContent(req.messages)
        /\ ns[1].role = "user"
        /\ \A i \in 1..Len(ns) : ns[i].role \in {"user", "assistant"}

\* C19: a message whose content is a string is sent with exactly that
\* string; a message whose content is an array of text parts is sent with
\* the texts of the parts joined with a newline in the order of the array.
C19_ContentNormalized ==
    LET ns == NonSystem(req.messages)
    IN  OneToOne
        => /\ rpc = "forwarded"
           /\ [i \in 1..Len(upReq.messages) |-> TextOf(upReq.messages[i])]
                = [i \in 1..Len(ns) |-> Normalized(ns[i].content)]

-----------------------------------------------------------------------------
(* Properties of the director *)

\* the request went through the director to the standard upstream
SentStandard == dpc = "sent" /\ outbound.family = "standard"

\* the name without its last suffix
BaseName(n) == [n EXCEPT !.sfx = SubSeq(n.sfx, 1, Len(n.sfx) - 1)]

\* n is a dated variant of a name that has an entry in the table
DatedVariantOfEntry(n) ==
    /\ n.sfx # << >>
    /\ IsDateSuffix(n.sfx[Len(n.sfx)])
    /\ LowerName(BaseName(n)) \in DOMAIN mapper

\* C11: a request for a dated variant of a model that has an entry in the
\* mapping table is sent to the deployment the model itself resolves to.
C11_DatedVariantResolvesAsBase ==
    SentStandard /\ DatedVariantOfEntry(inbound.model)
        => outbound.deployment
             = resolveModelDeployment(mapper, BaseName(inbound.model))

\* the entries whose key is a letter-case variant of n
CaseVariantKeys(n) == { k \in DOMAIN mapper : LowerName(k) = LowerName(n) }

\* C12: the deployment of a request is the entry of which the model name is
\* a letter-case variant; without one, the entry of the lowercased name with
\* its date suffix stripped; without that, the model name as it was sent.
C12_ResolutionOrder ==
    SentStandard =>
        LET n == inbound.model
            stripped == stripModelVersion(LowerName(n))
        IN  IF CaseVariantKeys(n) # {}
            THEN \A k \in CaseVariantKeys(n) : outbound.deployment = mapper[k]
            ELSE IF stripped \in DOMAIN mapper
                 THEN outbound.deployment = mapper[stripped]
                 ELSE outbound.deployment = n

\* the request is on the chat-completions path and its model satisfies both
\* the Claude predicate and the Responses API predicate
BothPredicates ==
    /\ inbound.path = "/v1/chat/completions"
    /\ ClaudePredicate(build, inbound.model)
    /\ shouldUseResponsesAPI(inbound.model)

C20_StandardKey ==
    SentStandard =>
        /\ outbound.auth = << >>
        /\ inbound.apiKey # << >> => outbound.apiKey = inbound.apiKey
        /\ inbound.apiKey = << >> /\ HasBearerPrefix(inbound.auth)
              => outbound.apiKey = Tail(inbound.auth)

C20_Witness ==
    /\ SentStandard
    /\ inbound.apiKey = << >>
    /\ inbound.auth = << Bearer, "k2" >>
    /\ outbound.apiKey = << "k2" >>
    /\ outbound.auth = << >>

\* C21: an outbound request to the standard or the structured upstream has
\* the query parameter api-version with the configured version as its value;
\* one to the conversational upstream has no api-version parameter and has
\* the anthropic-version header.
C21_ApiVersion ==
    dpc = "sent" =>
        /\ outbound.family = "standard"
              => outbound.apiVersion = << AzureOpenAIAPIVersion >>
        /\ outbound.family = "structured"
              => outbound.apiVersion = << AzureOpenAIResponsesAPIVersion >>
        /\ outbound.family = "conversational"
              => /\ outbound.apiVersion = << >>
                 /\ outbound.anthropicVersion = AnthropicAPIVersion

-----------------------------------------------------------------------------
(* Properties of the response converters *)

\* the chunks among the frames the client got
ChunksGot == SelectSeq(clientGot, LAMBDA f : f.t = "chunk")

\* the chunks that carry a finish_reason
FinishChunks == SelectSeq(ChunksGot, LAMBDA f : f.finish # "null")

\* the stop reasons of the message_delta events the upstream sent
StopReasons ==
    { r \in {"max_tokens", "end_turn"} :
        \E i \in 1..Len(upstream) : upstream[i] = Event("message_delta", PStop(r)) }

\* the finish_reason the upstream stop reason maps to
ExpectedFinish(stop) == IF stop = "max_tokens" THEN "length" ELSE "stop"

\* C22: finish_reason of a converted conversational response is "length"
\* exactly when the upstream stop reason is max_tokens and "stop" otherwise;
\* so is the finish_reason of the last chunk of a converted stream.
C22_FinishReason ==
    /\ (res.upath = "anthropic" /\ clientBody.kind = "chat.completion")
          => clientBody.finish = ExpectedFinish(body.stop)
    /\ (/\ Conversational
         /\ res.status = 200
         /\ ConvertedToEnd
         /\ CompletionObserved
         /\ Cardinality(StopReasons) = 1)
          => /\ FinishChunks # << >>
             /\ \A r \in StopReasons :
                   FinishChunks[Len(FinishChunks)].finish = ExpectedFinish(r)

\* the assistant message items of an output list that have a text part
AssistantItems(output) ==
    SelectSeq(output, LAMBDA o : /\ o.type = "message"
                                 /\ o.role = "assistant"
                                 /\ o.parts # << >>)

\* C23: the content of a converted structured response is the top-level
\* output_text when present; otherwise the text of the first assistant
\* message item of the output list; empty when there is neither.
C23_OutputTextThenFirstMessage ==
    (res.upath = "responses" /\ clientBody.kind = "chat.completion")
        => clientBody.content
             = IF body.outputText # AbsentText THEN body.outputText
               ELSE IF AssistantItems(body.output) # << >>
                    THEN Head(AssistantItems(body.output)[1].parts)
                    ELSE << >>

\* the content chunks the client received
ContentChunks == SelectSeq(ChunksGot, LAMBDA f : f.delta = "content")

\* the texts of the text-delta events sent upstream that carry a non-empty
\* text, in stream order
DeltaName == IF Converter = "responses" THEN "response.output_text.delta" ELSE "content_block_delta"
DeltaText(b) == IF Converter = "responses" THEN b[2].p.rdelta ELSE b[2].p.text
IsDeltaEvent(b) ==
    /\ Len(b) = 3
    /\ b[1] = EventLine(DeltaName)
    /\ b[2].k = "data"
    /\ JsonOK(b[2].p)
NonEmptyDeltas ==
    SelectSeq(upstream, LAMBDA b : IsDeltaEvent(b) /\ DeltaText(b) \notin {"", Absent})

\* C24: no stream converter emits a content chunk with empty content; a
\* text delta with empty or missing text produces no frame, and each text
\* delta with non-empty text produces exactly one content chunk with that
\* text.
C24_NoEmptyContentChunk ==
    /\ Streaming
          => \A i \in 1..Len(ContentChunks) : ContentChunks[i].content # ""
    /\ (Streaming /\ res.status = 200 /\ ConvertedToEnd /\ ~CompletionObserved)
          => /\ Len(ContentChunks) = Len(NonEmptyDeltas)
             /\ \A i \in 1..Len(ContentChunks) :
                   ContentChunks[i].content = DeltaText(NonEmptyDeltas[i])

\* the data line the scan loop is about to dispatch carries payload p
NextData(p) == pc = "scan" /\ rest # << >> /\ Head(rest) = DataLine(p)

\* what the converter in use does with the next line
NextStep == ConvertLine(Head(rest), eventType, messageID, StreamModel)

\* the event types the switch of Convert has a handler for
Recognised ==
    {"message_start", "content_block_delta", "message_delta", "message_stop"}

\* C25: in the conversational stream converter a ping payload produces no
\* frame under any current event type; a payload that is not valid JSON
\* under a recognised event type produces no frame and leaves the converter
\* running in the state it was in, so the later events are converted as if
\* the payload had not been there.
C25_PingAndBadJsonSkipped ==
    (Streaming /\ Conversational) =>
        /\ NextData(PPing) => NextStep.frames = << >>
        /\ (NextData(PBad) /\ eventType \in Recognised)
              => /\ NextStep.frames = << >>
                 /\ ~NextStep.ret
                 /\ NextStep.et = eventType
                 /\ NextStep.id = messageID

\* every line sent so far has been scanned, and the last one was blank
ScannedBlank ==
    /\ pc = "scan"
    /\ rest = << >>
    /\ upstream # << >>
    /\ upstream[Len(upstream)][Len(upstream[Len(upstream)])] = BlankLine

\* the next line is a data line that no event line precedes since the last
\* blank line (or since the start of the stream)
DataWithoutEvent ==
    /\ pc = "scan"
    /\ rest # << >>
    /\ Head(rest).k = "data"
    /\ rest = upstream[Len(upstream)]
    /\ Len(upstream) > 1 =>
          upstream[Len(upstream) - 1][Len(upstream[Len(upstream) - 1])] = BlankLine

\* C27: in every stream converter the current event type is empty after a
\* blank line, and a data line that arrives before the next event line
\* produces no output frame.
C27_BlankLineResetsEventType ==
    Streaming =>
        /\ ScannedBlank => eventType = ""
        /\ DataWithoutEvent => NextStep.frames = << >>

\* the director left the request of this response as it was: it sets
\* X-Original-Path only together with the path of the structured or of the
\* conversational endpoint, so a response from a deployments path, or one
\* whose request has no X-Original-Path, belongs to an unconverted request
DirectorConverted == res.origPath /\ res.upath \in {"responses", "anthropic"}

\* the client gets the upstream body as it is
PassedThrough ==
    /\ pc = "done"
    /\ clientBody = IF res.ctype = "sse" THEN StreamThrough ELSE body

\* C28: a response body is rewritten by a stream converter or a response
\* converter only if the director converted the request of that response;
\* the response of an unconverted request is passed through unchanged, also
\* when the client itself sent X-Original-Path: /v1/chat/completions.
C28_RewrittenOnlyIfConverted ==
    (pc # "modify" /\ ~DirectorConverted) => PassedThrough

\* C29: on every conversational stream that reaches message_stop exactly
\* one chunk with a non-null finish_reason is emitted; it is the last chunk,
\* so it comes after every content chunk, and [DONE] follows it directly;
\* this whatever the number of message_delta events in the stream.
C29_OneFinishChunk ==
    (/\ Conversational
     /\ res.status = 200
     /\ ConvertedToEnd
     /\ CompletionObserved)
    => /\ Len(FinishChunks) = 1
       /\ ChunksGot[Len(ChunksGot)] = FinishChunks[1]
       /\ Len(clientGot) >= 2
       /\ clientGot[Len(clientGot)] = DoneFrame
       /\ clientGot[Len(clientGot) - 1] = FinishChunks[1]

-----------------------------------------------------------------------------
(* Properties of the classification *)

\* the family the director put the request in: the conversion it applied
Classified ==
    CASE outbound.converted = << "conversational" >> -> "conversational"
      [] outbound.converted = << "structured" >> -> "structured"
      [] outbound.converted = << >> -> "standard"
      [] OTHER -> "several"

\* the family of a path and a model, the model taken in its lowercase form
Family(path, lower) ==
    IF path = "/v1/chat/completions" /\ ClaudePredicate(build, lower)
    THEN "conversational"
    ELSE IF path = "/v1/chat/completions" /\ shouldUseResponsesAPI(lower)
         THEN "structured"
         ELSE "standard"

\* C26: the family of a request depends only on its path and on its model
\* compared case-insensitively: on the chat-completions path it is
\* conversational iff the model matches the Claude predicate, otherwise
\* structured iff the model starts with a reasoning or codex name, otherwise
\* standard; on every other path it is standard and the body is not
\* converted.
C26_Classification ==
    dpc = "sent" =>
        /\ Classified = Family(inbound.path, LowerName(inbound.model))
        /\ inbound.path # "/v1/chat/completions" => outbound.converted = << >>

\* a Claude model written in upper case was classified conversational
C26_Witness ==
    /\ dpc = "sent"
    /\ inbound.path = "/v1/chat/completions"
    /\ inbound.model.upper
    /\ Classified = "conversational"

-----------------------------------------------------------------------------
(* Properties of the realtime session *)

\* a relay goroutine is in handleError
InHandleError(g) == relay[g].at \in {"once", "lock", "closeClient", "closeAzure"}

BothClosedOnce == session.ClientConn = 1 /\ session.AzureConn = 1

RelaysStopped == \A g \in Directions : relay[g].at = "stopped"

\* C30: when a relay direction hits a read or write error, the client
\* connection and the Azure connection are both closed, each exactly once
\* also when both directions fail together, and both relay goroutines
\* eventually stop; no message is forwarded after the session is closed.
C30_ClosedOnceAndQuiet ==
    /\ [](session.ClientConn <= 1 /\ session.AzureConn <= 1)
    /\ [](session.closeOnce = "done" => BothClosedOnce)
    /\ \A g \in Directions :
         InHandleError(g) ~> (BothClosedOnce /\ RelaysStopped)
    /\ [](\A i \in 1..Len(forwarded) : ~forwarded[i].closed)
====
